---------------------------- MODULE Spec2Model ----------------------------
(***************************************************************************)
(* Model of the two digest scripts yt_minutes.py and yt_news.py: the main  *)
(* pipeline (resolve each channel, list its recent uploads, deduplicate,   *)
(* fetch metadata in batches, sort, post to Slack) and the pure helpers    *)
(* (recency filter, chunking, tags, bullets, sort).                        *)
(*                                                                         *)
(* Text is a sequence of one-character strings.  Characters outside ASCII  *)
(* are written by their code point: "U3002" is the ideographic full stop,  *)
(* "U30FB" the katakana middle dot, "U2022" the bullet, "U2026" the        *)
(* horizontal ellipsis.  The Japanese tag labels of KEYWORDS are written   *)
(* as ASCII glosses.                                                       *)
(***************************************************************************)
EXTENDS Integers, Sequences, FiniteSets, TLC

VARIABLES
    script,             \* which script runs: "yt_minutes" or "yt_news"
    CHANNEL_IDS,        \* the configured channel ids, in order
    MAX_PER_CHANNEL,    \* the configured per-channel cap
    published_after_z,  \* the cutoff string of this run
    pc,                 \* position of main: the next external call, or done/failed
    ch_idx,             \* index in CHANNEL_IDS of the channel being processed
    upid,               \* uploads playlist id of the current channel
    all_ids,            \* the set all_ids of main
    rest,               \* ids of list(all_ids) not yet sent by fetch_videos_meta
    metas,              \* items accumulated by fetch_videos_meta
    calls,              \* every external call made so far, with its response
    unit                \* a helper function applied on its own: inputs and result

vars == <<script, CHANNEL_IDS, MAX_PER_CHANNEL, published_after_z, pc, ch_idx,
          upid, all_ids, rest, metas, calls, unit>>

pipeline_vars == <<script, CHANNEL_IDS, MAX_PER_CHANNEL, published_after_z, pc,
                   ch_idx, upid, all_ids, rest, metas, calls>>

-----------------------------------------------------------------------------
(* Bounds of the model *)

MaxChannels == 3      \* at most this many configured channels
MaxEntries == 3       \* longest feed given to the recency filter on its own
MaxIds == 120         \* most ids given to fetch_videos_meta on its own
MaxMetas == 4         \* longest metadata list given to the sort on its own
MaxPieces == 4        \* most text pieces in a title or description

-----------------------------------------------------------------------------
(* Python built-ins used by the scripts *)

Min(a, b) == IF a <= b THEN a ELSE b

Range(s) == {s[i] : i \in DOMAIN s}

\* dict.get(k, default)
Get(d, k, default) == IF k \in DOMAIN d THEN d[k] ELSE default

\* s[:n]
Take(s, n) == SubSeq(s, 1, Min(n, Len(s)))

\* s[n:]
Drop(s, n) == SubSeq(s, Min(n, Len(s)) + 1, Len(s))

\* a str literal as its sequence of characters
Chars(s) == [i \in 1..Len(s) |-> SubSeq(s, i, i)]

\* code points of the characters that occur in timestamps
CodePoints ==
    [c \in {"-", "0", "1", "2", "3", "4", "5", "6", "7", "8", "9", ":", "T", "Z"} |->
        CASE c = "-" -> 45 [] c = "0" -> 48 [] c = "1" -> 49 [] c = "2" -> 50
          [] c = "3" -> 51 [] c = "4" -> 52 [] c = "5" -> 53 [] c = "6" -> 54
          [] c = "7" -> 55 [] c = "8" -> 56 [] c = "9" -> 57 [] c = ":" -> 58
          [] c = "T" -> 84 [] c = "Z" -> 90]

Ord(c) == CodePoints[c]

\* a < b for str: the first differing character decides, else the shorter is less
RECURSIVE StrLess(_, _)
StrLess(a, b) ==
    IF b = <<>> THEN FALSE
    ELSE IF a = <<>> THEN TRUE
    ELSE IF Head(a) # Head(b) THEN Ord(Head(a)) < Ord(Head(b))
    ELSE StrLess(Tail(a), Tail(b))

\* a >= b for str
StrGE(a, b) == ~StrLess(a, b)

\* truthiness of a str
Truthy(s) == s # <<>>

-----------------------------------------------------------------------------
(* list_recent_video_ids: the loop over the items of a playlistItems response *)

\* it["contentDetails"].get("videoPublishedAt"): <<>> stands for None, which is
\* as falsy as the empty string
VideoPublishedAt(it) == Get(it.contentDetails, "videoPublishedAt", <<>>)

\* a filter that drops what was published exactly at the cutoff
KeepsStrictlyLater(it, cutoff) ==
    LET pub == VideoPublishedAt(it)
    IN  Truthy(pub) /\ StrLess(cutoff, pub)

Keeps(it, cutoff) ==
    LET pub == VideoPublishedAt(it)
    IN  Truthy(pub) /\ StrGE(pub, cutoff)

\* the loop: the ids of the kept items, in the order of the response
recent_video_ids(items, cutoff) ==
    LET kept == SelectSeq(items, LAMBDA it : Keeps(it, cutoff))
    IN  [i \in 1..Len(kept) |-> kept[i].contentDetails.videoId]

-----------------------------------------------------------------------------
(* Text helpers: str.lower, str.strip, str.split, re.split, re.sub *)

LowerOf ==
    [c \in {"A", "B", "C", "D", "E", "F", "G", "H", "I", "J", "K", "L", "M",
            "N", "O", "P", "Q", "R", "S", "T", "U", "V", "W", "X", "Y", "Z"} |->
        CASE c = "A" -> "a" [] c = "B" -> "b" [] c = "C" -> "c" [] c = "D" -> "d"
          [] c = "E" -> "e" [] c = "F" -> "f" [] c = "G" -> "g" [] c = "H" -> "h"
          [] c = "I" -> "i" [] c = "J" -> "j" [] c = "K" -> "k" [] c = "L" -> "l"
          [] c = "M" -> "m" [] c = "N" -> "n" [] c = "O" -> "o" [] c = "P" -> "p"
          [] c = "Q" -> "q" [] c = "R" -> "r" [] c = "S" -> "s" [] c = "T" -> "t"
          [] c = "U" -> "u" [] c = "V" -> "v" [] c = "W" -> "w" [] c = "X" -> "x"
          [] c = "Y" -> "y" [] c = "Z" -> "z"]

\* s.lower()
Lower(s) == [i \in 1..Len(s) |-> IF s[i] \in DOMAIN LowerOf THEN LowerOf[s[i]] ELSE s[i]]

\* k in text (k is never empty)
Contains(k, text) ==
    \E i \in 1..(Len(text) - Len(k) + 1) : SubSeq(text, i, i + Len(k) - 1) = k

\* the characters str.strip() and the pattern \s treat as whitespace
\* ("U3000" is the ideographic space)
Whitespace == {" ", "\t", "\n", "\r", "\f", "U3000"}

\* 1, 2, ..., n
Indices(n) == [i \in 1..n |-> i]

\* s.lstrip(chars): from the first character that is not in chars
LStrip(s, chars) ==
    LET keep == SelectSeq(Indices(Len(s)), LAMBDA i : s[i] \notin chars)
    IN  IF keep = <<>> THEN <<>> ELSE SubSeq(s, keep[1], Len(s))

\* s.rstrip(chars): up to the last character that is not in chars
RStrip(s, chars) ==
    LET keep == SelectSeq(Indices(Len(s)), LAMBDA i : s[i] \notin chars)
    IN  IF keep = <<>> THEN <<>> ELSE SubSeq(s, 1, keep[Len(keep)])

\* s.strip(chars)
Strip(s, chars) == RStrip(LStrip(s, chars), chars)

\* s.replace(c, "")
Remove(s, c) == SelectSeq(s, LAMBDA x : x # c)

\* the pieces of s between single occurrences of a character of chars
SplitOnEach(s, chars) ==
    LET at == SelectSeq(Indices(Len(s)), LAMBDA i : s[i] \in chars)
    IN  [k \in 1..(Len(at) + 1) |->
            SubSeq(s, IF k = 1 THEN 1 ELSE at[k - 1] + 1,
                      IF k = Len(at) + 1 THEN Len(s) ELSE at[k] - 1)]

\* s.split(c)
Split(s, c) == SplitOnEach(s, {c})

\* re.split("[chars]+", s): the pieces between maximal runs of chars, so no
\* empty piece except before a leading run and after a trailing one
ReSplit(s, chars) ==
    LET pieces == SplitOnEach(s, chars)
        kept == SelectSeq(Indices(Len(pieces)),
                          LAMBDA k : k = 1 \/ k = Len(pieces) \/ pieces[k] # <<>>)
    IN  [k \in 1..Len(kept) |-> pieces[kept[k]]]

\* re.sub(r"\s+", " ", s): one space for each maximal run of whitespace
CollapseWhitespace(s) ==
    LET kept == SelectSeq(Indices(Len(s)),
                          LAMBDA i : s[i] \notin Whitespace \/ i = 1
                                        \/ s[i - 1] \notin Whitespace)
    IN  [k \in 1..Len(kept) |-> IF s[kept[k]] \in Whitespace THEN " " ELSE s[kept[k]]]

normalize_text(s) == CollapseWhitespace(Strip(s, Whitespace))

-----------------------------------------------------------------------------
(* make_tags *)

\* KEYWORDS in insertion order; the labels are ASCII glosses of the Japanese ones
KEYWORDS ==
    << <<Chars("multimodal"), "Multimodal">>, <<Chars("vision"), "ImageVideo">>,
       <<Chars("video"), "ImageVideo">>, <<Chars("audio"), "Audio">>,
       <<Chars("agent"), "Agent">>, <<Chars("tool"), "ToolUse">>,
       <<Chars("safety"), "Safety">>, <<Chars("copyright"), "Copyright">>,
       <<Chars("regulation"), "Regulation">>, <<Chars("construction"), "Construction">>,
       <<Chars("marketing"), "SalesMarketing">>, <<Chars("open-source"), "OSS">>,
       <<Chars("finance"), "Finance">> >>

GeneralTopic == "GeneralTopic"

MaxTags == 5

\* f"{title}\n{desc}".lower()
TagText(title, desc) == Lower(title \o <<"\n">> \o desc)

RECURSIVE MatchingLabels(_, _)
MatchingLabels(table, text) ==
    IF table = <<>> THEN <<>>
    ELSE LET more == MatchingLabels(Tail(table), text)
         IN  IF Contains(Head(table)[1], text) THEN <<Head(table)[2]>> \o more ELSE more

\* tags without the cut to five
make_tags_uncut(title, desc) ==
    LET tags == MatchingLabels(KEYWORDS, TagText(title, desc))
    IN  IF tags # <<>> THEN tags ELSE <<GeneralTopic>>

make_tags(title, desc) ==
    LET tags == MatchingLabels(KEYWORDS, TagText(title, desc))
    IN  IF Take(tags, MaxTags) # <<>> THEN Take(tags, MaxTags) ELSE <<GeneralTopic>>

-----------------------------------------------------------------------------
(* bullets_from_description *)

LineStripChars == {" ", "U30FB", "-", "U2022", "\t"}

FragmentDelimiters == {"U3002", ".", "!", "?", "U30FB", "U2022", "-"}

MinFragmentLen == 8

MaxBullets == 3

\* the inner loop: the normalized fragments of one line that are long enough
LineParts(line) ==
    LET fragments == ReSplit(line, FragmentDelimiters)
        normalized == [i \in 1..Len(fragments) |-> normalize_text(fragments[i])]
    IN  SelectSeq(normalized, LAMBDA f : Len(f) >= MinFragmentLen)

\* the outer loop over the lines
RECURSIVE Parts(_)
Parts(raw) ==
    IF raw = <<>> THEN <<>>
    ELSE LET line == Strip(Head(raw), LineStripChars)
         IN  IF line = <<>> THEN Parts(Tail(raw))
             ELSE LineParts(line) \o Parts(Tail(raw))

\* the last fragments instead of the first
bullets_from_the_end(desc, max_items) ==
    IF desc = <<>> THEN <<>>
    ELSE LET parts == Parts(Split(Remove(desc, "\r"), "\n"))
         IN  SubSeq(parts, Len(parts) - Min(max_items, Len(parts)) + 1, Len(parts))

bullets_from_description(desc, max_items) ==
    IF desc = <<>> THEN <<>>
    ELSE Take(Parts(Split(Remove(desc, "\r"), "\n")), max_items)

-----------------------------------------------------------------------------
(* metas.sort(key=lambda x: x["snippet"]["publishedAt"], reverse=True) *)

SortKey(x) == x.snippet.publishedAt

\* the smallest key first: a sort without reverse=True
RECURSIVE KeysAscending(_)
KeysAscending(keys) ==
    IF keys = {} THEN <<>>
    ELSE LET low == CHOOSE k \in keys : \A j \in keys : ~StrLess(j, k)
         IN  <<low>> \o KeysAscending(keys \ {low})

\* the largest key first
RECURSIVE KeysDescending(_)
KeysDescending(keys) ==
    IF keys = {} THEN <<>>
    ELSE LET top == CHOOSE k \in keys : \A j \in keys : ~StrLess(k, j)
         IN  <<top>> \o KeysDescending(keys \ {top})

RECURSIVE ConcatByKey(_, _)
ConcatByKey(items, keys) ==
    IF keys = <<>> THEN <<>>
    ELSE SelectSeq(items, LAMBDA x : SortKey(x) = Head(keys)) \o ConcatByKey(items, Tail(keys))

\* list.sort is stable, also with reverse=True: the items of the largest key in
\* their order in the list, then those of the next key, and so on
sort_by_publishedAt_desc(items) ==
    ConcatByKey(items, KeysDescending({SortKey(items[i]) : i \in DOMAIN items}))

-----------------------------------------------------------------------------
(* The external services: what a call can return *)

\* the size of a chunk of fetch_videos_meta
MaxBatch == 50

\* the ceiling of maxResults in list_recent_video_ids
PageLimit == 50

\* read timeout, connection error or a non-2xx status: raise_for_status raises
HttpError == [status |-> "error", body |-> [error |-> "e"]]

\* an http_get that does not check the status
RaisesNever(r) == FALSE

\* r.raise_for_status() in http_get
Raises(r) == r.status = "error"

Ok(body) == [status |-> "ok", body |-> body]

\* the run's cutoff, and publish times one second before it, at it and after it
Cutoff == Chars("2026-11-01T00:00:00Z")
Older == Chars("2026-10-31T23:59:59Z")
Newer == Chars("2026-11-01T08:30:00Z")

\* channels.list: no such channel (items empty), or its uploads playlist
ChannelsResponses(channel_id) ==
    {HttpError, Ok([items |-> <<>>]),
     Ok([items |-> << [contentDetails |-> [relatedPlaylists |->
                                            [uploads |-> <<"UU", channel_id>>]]] >>])}

Entry(vid, pub) == [contentDetails |-> [videoId |-> vid, videoPublishedAt |-> pub]]

EntryWithoutDate(vid) == [contentDetails |-> [videoId |-> vid]]

\* a full page of distinct recent uploads of one playlist
BulkItems(channel_id) ==
    [i \in 1..PageLimit |-> Entry(100 * channel_id + i, IF i % 2 = 0 THEN Cutoff ELSE Newer)]

\* playlistItems.list: at most max_results entries, newest first
PlaylistItemsResponses(uploads_pid, max_results) ==
    {HttpError} \cup
    {Ok(b) : b \in {body \in
        {[etag |-> "e"],
         [items |-> <<Entry(1, Newer), Entry(2, Older)>>],
         [items |-> <<Entry(3, Newer), Entry(3, Newer), Entry(1, Cutoff)>>],
         [items |-> <<EntryWithoutDate(4), Entry(2, Older)>>],
         [items |-> BulkItems(uploads_pid[2])]} :
        Len(Get(body, "items", <<>>)) <= max_results}}

\* the metadata the platform holds for a video
MetaOf(vid) ==
    [id |-> vid,
     snippet |-> [publishedAt |-> CASE vid % 3 = 0 -> Cutoff
                                    [] vid % 3 = 1 -> Newer
                                    [] OTHER -> Older]]

\* videos.list: the items of the requested ids that are still available, in
\* request order
VideosResponses(chunk) ==
    {HttpError,
     Ok([items |-> [i \in 1..Len(chunk) |-> MetaOf(chunk[i])]]),
     Ok([items |-> [i \in 1..(Len(chunk) - 1) |-> MetaOf(chunk[i + 1])]]),
     Ok([etag |-> "e"])}

SlackResponses == {"ok", "error"}

-----------------------------------------------------------------------------
(* list(all_ids): every element once, in the iteration order of the set *)

MaxPermuted == 3

Ascending(S) ==
    IF S = {} THEN <<>>
    ELSE LET lo == CHOOSE x \in S : \A y \in S : x <= y
             hi == CHOOSE x \in S : \A y \in S : y <= x
         IN  SelectSeq([i \in 1..(hi - lo + 1) |-> lo + i - 1], LAMBDA x : x \in S)

Reverse(s) == [i \in 1..Len(s) |-> s[Len(s) + 1 - i]]

\* the orders considered: all of them for a small set, two for a large one
ListsOf(S) ==
    IF Cardinality(S) <= MaxPermuted
    THEN {f \in [1..Cardinality(S) -> S] : \A i, j \in DOMAIN f : i # j => f[i] # f[j]}
    ELSE {Ascending(S), Reverse(Ascending(S))}

\* an assignment in place of the update
set_replace(s, ids) == Range(ids)

\* all_ids.update(ids)
set_update(s, ids) == s \cup Range(ids)

\* get_uploads_pid after http_get returned: <<>> stands for None
get_uploads_pid(body) ==
    LET items == Get(body, "items", <<>>)
    IN  IF items = <<>> THEN <<>>
        ELSE items[1].contentDetails.relatedPlaylists.uploads

\* the cap passed on as it is
max_results_unclamped(cap) == cap

\* maxResults=min(MAX_PER_CHANNEL, 50)
max_results(cap) == Min(cap, PageLimit)

\* a chunk that is one id too long
next_chunk_one_more(it, size) == Take(it, size + 1)

\* list(islice(it, size)) in chunked
next_chunk(it, size) == Take(it, size)

\* both scripts return without posting
after_no_ids_silent(which) == "done"

\* where main goes when all_ids is empty: yt_minutes posts the notice, yt_news
\* returns
after_no_ids(which) == IF which = "yt_minutes" THEN "slack" ELSE "done"

-----------------------------------------------------------------------------
(* main *)

Scripts == {"yt_minutes", "yt_news"}

Idle == [fn |-> "main"]

Init ==
    /\ script \in Scripts
    /\ \E n \in 0..MaxChannels : CHANNEL_IDS = [i \in 1..n |-> i]
    /\ MAX_PER_CHANNEL \in {10, 60}
    /\ published_after_z = Cutoff
    /\ pc = "channels"
    /\ ch_idx = 1
    /\ upid = <<>>
    /\ all_ids = {}
    /\ rest = <<>>
    /\ metas = <<>>
    /\ calls = <<>>
    /\ unit = Idle

\* the loop is left instead of continued
LeaveLoop ==
    /\ ch_idx' = Len(CHANNEL_IDS) + 1
    /\ pc' = "channels"
    /\ upid' = <<>>

\* the for loop moves on to the next channel
NextChannel ==
    /\ ch_idx' = ch_idx + 1
    /\ pc' = "channels"
    /\ upid' = <<>>

\* upid = get_uploads_pid(ch); if not upid: continue
GetUploadsPid ==
    /\ pc = "channels"
    /\ ch_idx <= Len(CHANNEL_IDS)
    /\ \E r \in ChannelsResponses(CHANNEL_IDS[ch_idx]) :
         /\ calls' = Append(calls, [api |-> "channels", ch |-> ch_idx, response |-> r])
         /\ IF Raises(r)
            THEN pc' = "failed" /\ UNCHANGED <<ch_idx, upid>>
            ELSE IF ~Truthy(get_uploads_pid(r.body))
                 THEN NextChannel
                 ELSE /\ upid' = get_uploads_pid(r.body)
                      /\ pc' = "playlistItems"
                      /\ UNCHANGED ch_idx
    /\ UNCHANGED <<script, CHANNEL_IDS, MAX_PER_CHANNEL, published_after_z, all_ids,
                   rest, metas, unit>>

\* all_ids.update(list_recent_video_ids(upid, published_after_z))
ListRecentVideoIds ==
    /\ pc = "playlistItems"
    /\ LET n == max_results(MAX_PER_CHANNEL)
       IN  \E r \in PlaylistItemsResponses(upid, n) :
             /\ calls' = Append(calls, [api |-> "playlistItems", ch |-> ch_idx,
                                        playlistId |-> upid, maxResults |-> n,
                                        response |-> r])
             /\ IF Raises(r)
                THEN pc' = "failed" /\ UNCHANGED <<ch_idx, upid, all_ids>>
                ELSE /\ all_ids' = set_update(all_ids,
                            recent_video_ids(Get(r.body, "items", <<>>), published_after_z))
                     /\ NextChannel
    /\ UNCHANGED <<script, CHANNEL_IDS, MAX_PER_CHANNEL, published_after_z, rest, metas,
                   unit>>

\* after the loop: if not all_ids (notice or silent return), else
\* fetch_videos_meta(list(all_ids)) starts
AfterChannels ==
    /\ pc = "channels"
    /\ ch_idx > Len(CHANNEL_IDS)
    /\ IF all_ids = {}
       THEN /\ pc' = after_no_ids(script)
            /\ rest' = rest
       ELSE /\ pc' = "videos"
            /\ rest' \in ListsOf(all_ids)
    /\ UNCHANGED <<script, CHANNEL_IDS, MAX_PER_CHANNEL, published_after_z, ch_idx, upid,
                   all_ids, metas, calls, unit>>

\* one round of the loop of fetch_videos_meta: the next chunk of chunked(video_ids, 50)
FetchChunk ==
    /\ pc = "videos"
    /\ rest # <<>>
    /\ LET chunk == next_chunk(rest, MaxBatch)
       IN  \E r \in VideosResponses(chunk) :
             /\ calls' = Append(calls, [api |-> "videos", ids |-> chunk, response |-> r])
             /\ IF Raises(r)
                THEN pc' = "failed" /\ UNCHANGED <<rest, metas>>
                ELSE /\ metas' = metas \o Get(r.body, "items", <<>>)
                     /\ rest' = Drop(rest, Len(chunk))
                     /\ pc' = "videos"
    /\ UNCHANGED <<script, CHANNEL_IDS, MAX_PER_CHANNEL, published_after_z, ch_idx, upid,
                   all_ids, unit>>

\* chunked is exhausted: fetch_videos_meta returns and main sorts the items
FetchReturn ==
    /\ pc = "videos"
    /\ rest = <<>>
    /\ metas' = sort_by_publishedAt_desc(metas)
    /\ pc' = "slack"
    /\ UNCHANGED <<script, CHANNEL_IDS, MAX_PER_CHANNEL, published_after_z, ch_idx, upid,
                   all_ids, rest, calls, unit>>

\* what main posts: the notice when all_ids is empty, else one record per item
\* of metas, in order
Message ==
    IF all_ids = {} THEN [kind |-> "notice"]
    ELSE [kind |-> "digest", records |-> metas]

\* post_to_slack_text / post_to_slack
PostToSlack ==
    /\ pc = "slack"
    /\ \E st \in SlackResponses :
         /\ calls' = Append(calls, [api |-> "slack", message |-> Message,
                                    response |-> [status |-> st]])
         /\ pc' = IF st = "ok" THEN "done" ELSE "failed"
    /\ UNCHANGED <<script, CHANNEL_IDS, MAX_PER_CHANNEL, published_after_z, ch_idx, upid,
                   all_ids, rest, metas, unit>>

Next ==
    \/ GetUploadsPid
    \/ ListRecentVideoIds
    \/ AfterChannels
    \/ FetchChunk
    \/ FetchReturn
    \/ PostToSlack

Spec == Init /\ [][Next]_vars

-----------------------------------------------------------------------------
(* fetch_videos_meta on its own: called on a list of n distinct ids *)

InitFetch ==
    /\ script \in Scripts
    /\ CHANNEL_IDS = [i \in 1..MaxChannels |-> i]
    /\ MAX_PER_CHANNEL = 60
    /\ published_after_z = Cutoff
    /\ pc = "videos"
    /\ ch_idx = MaxChannels + 1
    /\ upid = <<>>
    /\ \E n \in 0..MaxIds : all_ids = 1..n /\ rest = [i \in 1..n |-> i]
    /\ metas = <<>>
    /\ calls = <<>>
    /\ unit = Idle

NextFetch ==
    \/ FetchChunk
    \/ FetchReturn

SpecFetch == InitFetch /\ [][NextFetch]_vars

-----------------------------------------------------------------------------
(* The sort and the post on their own: one batch has returned any short list *)
(* of items                                                                  *)

SortItems ==
    {[id |-> i, snippet |-> [publishedAt |-> t]] :
        i \in 1..2, t \in {Chars("1"), Chars("2"), Chars("12")}}

SeqsUpTo(S, n) == UNION {[1..k -> S] : k \in 0..n}

InitSort ==
    /\ script \in Scripts
    /\ CHANNEL_IDS = <<1>>
    /\ MAX_PER_CHANNEL = 10
    /\ published_after_z = Cutoff
    /\ pc = "videos"
    /\ ch_idx = 2
    /\ upid = <<>>
    /\ all_ids = {1, 2}
    /\ rest = <<>>
    /\ metas \in SeqsUpTo(SortItems, MaxMetas)
    /\ calls = << [api |-> "videos", ids |-> <<1, 2>>, response |-> Ok([items |-> metas])] >>
    /\ unit = Idle

NextSort ==
    \/ FetchReturn
    \/ PostToSlack

SpecSort == InitSort /\ [][NextSort]_vars

-----------------------------------------------------------------------------
(* The pure helpers on their own: unit holds the arguments, then the result *)

NoRun ==
    /\ script = "yt_minutes"
    /\ CHANNEL_IDS = <<>>
    /\ MAX_PER_CHANNEL = 10
    /\ published_after_z = Cutoff
    /\ pc = "unit"
    /\ ch_idx = 1
    /\ upid = <<>>
    /\ all_ids = {}
    /\ rest = <<>>
    /\ metas = <<>>
    /\ calls = <<>>

RECURSIVE Flatten(_)
Flatten(ss) == IF ss = <<>> THEN <<>> ELSE Head(ss) \o Flatten(Tail(ss))

\* list_recent_video_ids: any short response, any of two cutoffs
ShortStamps == {Chars("1"), Chars("2"), Chars("12"), Chars("21")}

FilterEntries ==
    {Entry(v, t) : v \in 1..2, t \in ShortStamps \cup {<<>>}}
        \cup {EntryWithoutDate(v) : v \in 1..2}

InitFilter ==
    /\ NoRun
    /\ \E items \in SeqsUpTo(FilterEntries, MaxEntries), cutoff \in {Chars("12"), Chars("2")} :
         unit = [fn |-> "list_recent_video_ids", items |-> items, cutoff |-> cutoff,
                 state |-> "called", ret |-> <<>>]

ReturnRecentVideoIds ==
    /\ unit.state = "called"
    /\ unit' = [unit EXCEPT !.state = "returned",
                            !.ret = recent_video_ids(unit.items, unit.cutoff)]
    /\ UNCHANGED pipeline_vars

SpecFilter == InitFilter /\ [][ReturnRecentVideoIds]_vars

\* make_tags: a title of at most one piece, a description of several
TagPieces ==
    {Chars("Multimodal VIDEO"), Chars("audio agents"), Chars("toolbox safety"),
     Chars("too"), Chars("l"), Chars("Open-Source vision FINANCE\n")}

InitTags ==
    /\ NoRun
    /\ \E title \in SeqsUpTo(TagPieces, 1), desc \in SeqsUpTo(TagPieces, MaxPieces) :
         unit = [fn |-> "make_tags", title |-> Flatten(title), desc |-> Flatten(desc),
                 state |-> "called", ret |-> <<>>]

ReturnTags ==
    /\ unit.state = "called"
    /\ unit' = [unit EXCEPT !.state = "returned",
                            !.ret = make_tags(unit.title, unit.desc)]
    /\ UNCHANGED pipeline_vars

SpecTags == InitTags /\ [][ReturnTags]_vars

\* bullets_from_description: a description of several pieces
BulletPieces ==
    {Chars("Intro.\n"), Chars("Built with RAG and tool use.\n"), Chars("Short.\n - 12345678\n"),
     Chars("abcd\r"), Chars("efg \t") \o <<"U3000">>,
     <<"U30FB">> \o Chars("1234567") \o <<"U3002">>, Chars("x  y\fz ?"), Chars("\n")}

InitBullets ==
    /\ NoRun
    /\ \E desc \in SeqsUpTo(BulletPieces, MaxPieces) :
         unit = [fn |-> "bullets_from_description", desc |-> Flatten(desc),
                 state |-> "called", ret |-> <<>>]

ReturnBullets ==
    /\ unit.state = "called"
    /\ unit' = [unit EXCEPT !.state = "returned",
                            !.ret = bullets_from_description(unit.desc, MaxBullets)]
    /\ UNCHANGED pipeline_vars

SpecBullets == InitBullets /\ [][ReturnBullets]_vars

-----------------------------------------------------------------------------
(* Notions the properties are stated with *)

\* a is lexically below b: a is a proper prefix of b, or at the first position
\* where they differ a has the smaller code point
LexLess(a, b) ==
    \E k \in 0..Min(Len(a), Len(b)) :
        /\ \A j \in 1..k : a[j] = b[j]
        /\ \/ k = Len(a) /\ k < Len(b)
           \/ k < Len(a) /\ k < Len(b) /\ CodePoints[a[k + 1]] < CodePoints[b[k + 1]]

LexGE(a, b) == a = b \/ LexLess(b, a)

HasStamp(e) == "videoPublishedAt" \in DOMAIN e.contentDetails

\* the entry has a publish timestamp and it is lexically at or after c
Qualifies(e, c) == HasStamp(e) /\ LexGE(e.contentDetails.videoPublishedAt, c)

IdsOf(entries) == [i \in 1..Len(entries) |-> entries[i].contentDetails.videoId]

Distinct(seq) == Cardinality(Range(seq)) = Len(seq)

CallsTo(api) == SelectSeq(calls, LAMBDA c : c.api = api)

RequestedIds == Flatten([k \in 1..Len(CallsTo("videos")) |-> CallsTo("videos")[k].ids])

Returned == unit.state = "returned"

-----------------------------------------------------------------------------
(* C1: list_recent_video_ids returns the ids of exactly the entries of the  *)
(* response that have a publish timestamp lexically at or after the cutoff, *)
(* in the order of the response; every entry it drops has no timestamp or a *)
(* timestamp lexically below the cutoff; it returns no id from elsewhere.   *)
C1_RecencyFilter ==
    Returned =>
        /\ unit.ret = IdsOf(SelectSeq(unit.items, LAMBDA e : Qualifies(e, unit.cutoff)))
        /\ \A i \in DOMAIN unit.items :
              LET e == unit.items[i]
              IN  ~Qualifies(e, unit.cutoff) =>
                    \/ ~HasStamp(e)
                    \/ LexLess(e.contentDetails.videoPublishedAt, unit.cutoff)
        /\ Range(unit.ret) \subseteq Range(IdsOf(unit.items))

\* a response with an entry exactly at the cutoff, an older one and one without
\* a timestamp, of which only the first is returned
C1_Witness ==
    /\ Returned
    /\ unit.cutoff = Chars("12")
    /\ unit.items = <<Entry(1, Chars("1")), Entry(2, Chars("12")), EntryWithoutDate(1)>>
    /\ unit.ret = <<2>>

-----------------------------------------------------------------------------
(* C2: fetch_videos_meta on n distinct ids sends requests of 1 to 50 ids,   *)
(* each full except the last, that together carry the ids in order, every   *)
(* id once; when it returns it has sent exactly ceil(n / 50) requests.      *)
C2_Batches ==
    LET reqs == CallsTo("videos")
        n == Cardinality(all_ids)
    IN  /\ \A k \in DOMAIN reqs : Len(reqs[k].ids) >= 1 /\ Len(reqs[k].ids) <= 50
        /\ \A k \in DOMAIN reqs : k < Len(reqs) => Len(reqs[k].ids) = 50
        /\ Len(RequestedIds) <= n
        /\ RequestedIds = Indices(Len(RequestedIds))
        /\ pc = "slack" =>
              /\ Len(reqs) = (n + 49) \div 50
              /\ RequestedIds = Indices(n)

\* 120 ids went out in three requests of 50, 50 and 20
C2_Witness ==
    /\ pc = "slack"
    /\ Cardinality(all_ids) = 120
    /\ Len(CallsTo("videos")) = 3
    /\ Len(CallsTo("videos")[3].ids) = 20

-----------------------------------------------------------------------------
(* C7: the records posted are the items the batches returned, in            *)
(* non-increasing order of publishedAt, items of equal publishedAt in the   *)
(* order in which they were returned.                                       *)
C7_StableDescending ==
    \A k \in DOMAIN calls :
        calls[k].api = "slack" =>
            LET out == calls[k].message.records
                fetched == calls[1].response.body.items
                key(x) == x.snippet.publishedAt
            IN  /\ Len(out) = Len(fetched)
                /\ \A i \in 1..(Len(out) - 1) : ~LexLess(key(out[i]), key(out[i + 1]))
                /\ \A t \in {key(fetched[i]) : i \in DOMAIN fetched}
                            \cup {key(out[i]) : i \in DOMAIN out} :
                      SelectSeq(out, LAMBDA x : key(x) = t)
                          = SelectSeq(fetched, LAMBDA x : key(x) = t)

\* items returned out of order, two of them with the same publishedAt
C7_Witness ==
    /\ Len(calls) = 2
    /\ calls[2].api = "slack"
    /\ calls[1].response.body.items =
          << [id |-> 2, snippet |-> [publishedAt |-> Chars("1")]],
             [id |-> 1, snippet |-> [publishedAt |-> Chars("12")]],
             [id |-> 1, snippet |-> [publishedAt |-> Chars("1")]],
             [id |-> 2, snippet |-> [publishedAt |-> Chars("2")]] >>
    /\ calls[2].message.records =
          << [id |-> 2, snippet |-> [publishedAt |-> Chars("2")]],
             [id |-> 1, snippet |-> [publishedAt |-> Chars("12")]],
             [id |-> 2, snippet |-> [publishedAt |-> Chars("1")]],
             [id |-> 1, snippet |-> [publishedAt |-> Chars("1")]] >>

-----------------------------------------------------------------------------
(* C8: make_tags returns 1 to 5 tags; it returns the sentinel alone exactly *)
(* when no keyword occurs in the lower-cased text (the title, a line break, *)
(* the description); otherwise the labels of the first five keywords that   *)
(* occur, in the order of the table.                                        *)
Occurs(word, text) ==
    \E i \in 0..(Len(text) - Len(word)) : \A j \in 1..Len(word) : text[i + j] = word[j]

C8_Tags ==
    Returned =>
        LET text == Lower(unit.title \o <<"\n">> \o unit.desc)
            hits == {k \in DOMAIN KEYWORDS : Occurs(KEYWORDS[k][1], text)}
            nth(i) == CHOOSE k \in hits : Cardinality({h \in hits : h <= k}) = i
        IN  /\ Len(unit.ret) >= 1 /\ Len(unit.ret) <= 5
            /\ unit.ret = <<GeneralTopic>> <=> hits = {}
            /\ hits # {} =>
                  /\ Len(unit.ret) = Min(5, Cardinality(hits))
                  /\ \A i \in DOMAIN unit.ret : unit.ret[i] = KEYWORDS[nth(i)][2]

\* six keywords occur, in another order than the table's, and five labels are
\* returned
C8_Witness ==
    /\ Returned
    /\ unit.title = Chars("toolbox safety")
    /\ unit.desc = Chars("audio agentsMultimodal VIDEO")
    /\ unit.ret = <<"Multimodal", "ImageVideo", "Audio", "Agent", "ToolUse">>

-----------------------------------------------------------------------------
(* C9: bullets_from_description returns at most 3 fragments, each trimmed,  *)
(* with single spaces for whitespace runs and at least 8 characters long;   *)
(* they are the first three such fragments in the order of the text (line   *)
(* by line, then piece by piece between delimiters); an empty description   *)
(* gives none.                                                              *)
IsNormalized(f) ==
    /\ \A i \in DOMAIN f : f[i] \in Whitespace => f[i] = " "
    /\ f # <<>> => f[1] # " " /\ f[Len(f)] # " "
    /\ \A i \in 1..(Len(f) - 1) : ~(f[i] = " " /\ f[i + 1] = " ")

\* every fragment of the text in scan order: a line ends at a line break, a
\* fragment at a delimiter; carriage returns do not count
FragmentsInOrder(desc) ==
    LET pieces == SplitOnEach(Remove(desc, "\r"), FragmentDelimiters \cup {"\n"})
    IN  [k \in 1..Len(pieces) |-> normalize_text(pieces[k])]

C9_Bullets ==
    Returned =>
        LET qualifying == SelectSeq(FragmentsInOrder(unit.desc), LAMBDA f : Len(f) >= 8)
        IN  /\ Len(unit.ret) <= 3
            /\ \A i \in DOMAIN unit.ret : Len(unit.ret[i]) >= 8 /\ IsNormalized(unit.ret[i])
            /\ unit.ret = SubSeq(qualifying, 1, Min(3, Len(qualifying)))
            /\ unit.desc = <<>> => unit.ret = <<>>

\* four fragments qualify and a short one is skipped; the first three are kept
C9_Witness ==
    /\ Returned
    /\ unit.desc = Chars("Built with RAG and tool use.\nShort.\n - 12345678\n")
                        \o Chars("Built with RAG and tool use.\nBuilt with RAG and tool use.\n")
    /\ unit.ret = <<Chars("Built with RAG and tool use"), Chars("12345678"),
                    Chars("Built with RAG and tool use")>>

-----------------------------------------------------------------------------
(* Notions of the run the properties are stated with *)

IsOk(c) == c.response.status = "ok"

\* a resolution that succeeded and named no channel: the soft skip
Skipped(c) == c.api = "channels" /\ IsOk(c) /\ Get(c.response.body, "items", <<>>) = <<>>

\* a resolution that named the uploads playlist
Resolved(c) == c.api = "channels" /\ IsOk(c) /\ Get(c.response.body, "items", <<>>) # <<>>

Listed == SelectSeq(calls, LAMBDA c : c.api = "playlistItems" /\ IsOk(c))

\* the ids of the entries of a listing that are at or after the cutoff
FilteredIds(c) ==
    IdsOf(SelectSeq(Get(c.response.body, "items", <<>>),
                    LAMBDA e : Qualifies(e, published_after_z)))

\* the filtered lists of all sources, one after the other
AllFiltered == Flatten([k \in 1..Len(Listed) |-> FilteredIds(Listed[k])])

\* every item the metadata calls returned, in order
ReturnedItems ==
    Flatten([k \in 1..Len(CallsTo("videos")) |->
                Get(CallsTo("videos")[k].response.body, "items", <<>>)])

UpstreamFailed == \E k \in DOMAIN calls : calls[k].api # "slack" /\ ~IsOk(calls[k])

EnumerationOver == pc # "unit" /\ ch_idx > Len(CHANNEL_IDS)

\* the loop over the sources has just ended
LoopEnded == pc = "channels" /\ ch_idx > Len(CHANNEL_IDS)

Delivered(c) == c.api = "slack" /\ IsOk(c)

-----------------------------------------------------------------------------
(* C3: the list handed to fetch_videos_meta holds every filtered id once:   *)
(* no id twice, at most as many ids as the filtered lists have entries, and *)
(* as many exactly when those entries are all distinct; no id is requested  *)
(* twice in a run.                                                          *)
C3_Dedup ==
    /\ (pc = "videos" /\ CallsTo("videos") = <<>>) =>
          /\ Distinct(rest)
          /\ Range(rest) = Range(AllFiltered)
          /\ Len(rest) <= Len(AllFiltered)
          /\ Len(rest) = Len(AllFiltered) <=> Distinct(AllFiltered)
    /\ Distinct(RequestedIds)

\* id 1 is in two feeds and id 3 twice in one: four entries, two ids
C3_Witness ==
    /\ pc = "videos"
    /\ CallsTo("videos") = <<>>
    /\ AllFiltered = <<1, 3, 3, 1>>
    /\ Len(rest) = 2

-----------------------------------------------------------------------------
(* C4 as claimed: after a failed resolution, listing or metadata call no    *)
(* delivery call is made, and a delivered digest has one record for every   *)
(* id of the deduplicated set.                                              *)
NoDeliveryAfterFailure == UpstreamFailed => CallsTo("slack") = <<>>

C4_AsClaimed ==
    /\ NoDeliveryAfterFailure
    /\ \A k \in DOMAIN calls :
          (Delivered(calls[k]) /\ calls[k].message.kind = "digest") =>
              LET ids == [i \in 1..Len(calls[k].message.records) |->
                              calls[k].message.records[i].id]
              IN  Range(ids) = all_ids /\ Distinct(ids)

(* C4 amended: after a failed resolution, listing or metadata call no       *)
(* delivery call is made; when a digest is posted every id of the           *)
(* deduplicated set was requested once, in metadata calls that all          *)
(* succeeded, and the digest holds exactly the records those calls          *)
(* returned, none for an id the platform returned nothing for.              *)
C4_FailFast ==
    /\ NoDeliveryAfterFailure
    /\ \A k \in DOMAIN calls :
          (calls[k].api = "slack" /\ calls[k].message.kind = "digest") =>
              /\ Range(RequestedIds) = all_ids
              /\ Distinct(RequestedIds)
              /\ \A j \in 1..(k - 1) : IsOk(calls[j])
              /\ Len(calls[k].message.records) = Len(ReturnedItems)
              /\ Range(calls[k].message.records) = Range(ReturnedItems)

\* the second metadata call failed after the first had returned its items
C4_Witness ==
    /\ pc = "failed"
    /\ Len(CallsTo("videos")) = 2
    /\ IsOk(CallsTo("videos")[1])
    /\ ~IsOk(CallsTo("videos")[2])
    /\ metas # <<>>
    /\ CallsTo("slack") = <<>>

-----------------------------------------------------------------------------
(* C5 as claimed: in both scripts a run that ends with an empty set of ids  *)
(* has delivered exactly one message, the notice, and requested no          *)
(* metadata.                                                                *)
C5_AsClaimed ==
    (pc = "done" /\ all_ids = {}) =>
        /\ Len(CallsTo("slack")) = 1
        /\ CallsTo("slack")[1].message.kind = "notice"
        /\ CallsTo("videos") = <<>>

(* C5 amended: when the set of ids is empty after the last source, no       *)
(* metadata is requested; yt_minutes makes one delivery call, the notice,   *)
(* and yt_news returns without any delivery call.                           *)
C5_EmptyRun ==
    (EnumerationOver /\ all_ids = {}) =>
        /\ CallsTo("videos") = <<>>
        /\ script = "yt_news" => CallsTo("slack") = <<>> /\ pc \in {"channels", "done"}
        /\ script = "yt_minutes" =>
              /\ Len(CallsTo("slack")) <= 1
              /\ \A k \in DOMAIN CallsTo("slack") : CallsTo("slack")[k].message.kind = "notice"
              /\ pc = "done" => Len(CallsTo("slack")) = 1

\* yt_minutes ends after a skipped source and a feed whose entries were all
\* filtered out
C5_Witness ==
    /\ script = "yt_minutes"
    /\ pc = "done"
    /\ all_ids = {}
    /\ \E k \in DOMAIN calls : Skipped(calls[k])
    /\ \E k \in DOMAIN Listed : Get(Listed[k].response.body, "items", <<>>) # <<>>
    /\ Delivered(calls[Len(calls)])

-----------------------------------------------------------------------------
(* C6: after a resolution that succeeds and names no uploads playlist the   *)
(* run goes on: no listing call is made for that source and the next call   *)
(* is the resolution of the next source; when the enumeration is over every *)
(* source was resolved once, every resolved source listed once, and the set *)
(* of ids the loop ends with is the union of the filtered feeds of the      *)
(* resolved sources.                                                        *)
C6_SoftSkip ==
    /\ \A k \in DOMAIN calls :
          Skipped(calls[k]) =>
              /\ \A j \in DOMAIN calls :
                    ~(calls[j].api = "playlistItems" /\ calls[j].ch = calls[k].ch)
              /\ IF k = Len(calls)
                 THEN pc # "failed" /\ ch_idx = calls[k].ch + 1
                 ELSE calls[k].ch < Len(CHANNEL_IDS) =>
                        calls[k + 1].api = "channels" /\ calls[k + 1].ch = calls[k].ch + 1
    /\ EnumerationOver =>
          /\ \A i \in DOMAIN CHANNEL_IDS :
                /\ Cardinality({k \in DOMAIN calls :
                                    calls[k].api = "channels" /\ calls[k].ch = i}) = 1
                /\ \E k \in DOMAIN calls :
                      /\ calls[k].api = "channels" /\ calls[k].ch = i
                      /\ Cardinality({j \in DOMAIN calls :
                                          calls[j].api = "playlistItems" /\ calls[j].ch = i})
                            = IF Resolved(calls[k]) THEN 1 ELSE 0
    /\ LoopEnded => all_ids = UNION {Range(FilteredIds(Listed[k])) : k \in DOMAIN Listed}

\* the first source was skipped, a later one was listed and gave ids
C6_Witness ==
    /\ LoopEnded
    /\ Len(CHANNEL_IDS) = 3
    /\ Skipped(calls[1])
    /\ Len(Listed) = 2
    /\ all_ids = {1, 3}

-----------------------------------------------------------------------------
(* C10: the calls of a run, in the order made: no call follows a failed one *)
(* (nothing is retried); the sources are resolved in their order, each at   *)
(* most once; a listing call comes right after the resolution of its source *)
(* and only if that named a playlist, and asks for at most 50 entries; a    *)
(* resolution that named a playlist is followed by the listing call; the    *)
(* metadata calls come after all resolution and listing calls; the delivery *)
(* call is made at most once and is the last call.                          *)
Phase(c) ==
    CASE c.api \in {"channels", "playlistItems"} -> 1
      [] c.api = "videos" -> 2
      [] c.api = "slack" -> 3

C10_Sequencing ==
    LET n == Len(calls)
        resolutions == CallsTo("channels")
    IN  /\ \A k \in 1..(n - 1) : IsOk(calls[k])
        /\ \A k \in 1..(n - 1) : Phase(calls[k]) <= Phase(calls[k + 1])
        /\ Len(CallsTo("slack")) <= 1
        /\ \A k \in 1..n : calls[k].api = "slack" => k = n
        /\ \A i \in DOMAIN resolutions :
              resolutions[i].ch = i /\ i <= Len(CHANNEL_IDS)
        /\ \A k \in 1..n :
              calls[k].api = "playlistItems" =>
                  /\ k > 1
                  /\ Resolved(calls[k - 1])
                  /\ calls[k - 1].ch = calls[k].ch
                  /\ calls[k].maxResults <= 50
        /\ \A k \in 1..n :
              Resolved(calls[k]) =>
                  IF k < n THEN calls[k + 1].api = "playlistItems"
                  ELSE pc = "playlistItems"
        /\ (CallsTo("videos") # <<>> \/ CallsTo("slack") # <<>>) =>
              Len(resolutions) = Len(CHANNEL_IDS)

\* a complete run: a source skipped, two full feeds listed with a cap above
\* 50, the ids fetched in two calls, the digest delivered
C10_Witness ==
    /\ pc = "done"
    /\ MAX_PER_CHANNEL = 60
    /\ \E k \in DOMAIN calls : Skipped(calls[k])
    /\ Len(Listed) = 2
    /\ Len(CallsTo("videos")) = 2
    /\ Delivered(calls[Len(calls)])

=============================================================================
